---- MODULE Spec2Model ----
(***************************************************************************)
(* A model of TestHelpers.h: the TestException record, the TEST_ check     *)
(* macros and the main() function that IMPLEMENT_TEST_MAIN expands to.     *)
(*                                                                         *)
(* Two specifications are given.  SpecChecks applies one check macro to    *)
(* one invocation drawn from a bounded set of operands / statements.  Spec *)
(* runs main() over an ordered suite of test cases.                        *)
(*                                                                         *)
(* Strings built by fmt::format are modelled as sequences of string        *)
(* tokens: the format template followed by the rendering of each argument. *)
(***************************************************************************)
EXTENDS Integers, Sequences, FiniteSets, TLC

VARIABLES
    suite,      \* Spec: the TestCode of IMPLEMENT_TEST_MAIN, an ordered sequence of test cases
    pc,         \* Spec: position inside main()
    ran,        \* Spec: number of test cases whose execution has begun
    pending,    \* Spec: the exception in flight between the try block and its handler
    output,     \* Spec: the lines printed by fmt::print so far
    exitCode,   \* Spec: the value main() returned, NotReturned before that
    inv,        \* SpecChecks: the check invocation (macro and its arguments)
    cpc,        \* SpecChecks: "ready" before the check has run, "done" after
    res         \* SpecChecks: what the check did (exception leaving it, evaluation counts)

vars == <<suite, pc, ran, pending, output, exitCode, inv, cpc, res>>

runnerVars == <<suite, pc, ran, pending, output, exitCode>>

checkVars == <<inv, cpc, res>>

-----------------------------------------------------------------------------
(* Bounds *)

\* Operand values of the comparison checks range over 0..MaxVal.
MaxVal == 1

\* A suite holds at most MaxCases test cases.
MaxCases == 3

-----------------------------------------------------------------------------
(* Rendering of values into message text *)

DigitText == <<"0", "1", "2", "3", "4", "5", "6", "7", "8", "9">>

RECURSIVE FmtInt(_)
\* fmt's rendering of a non-negative integer: its decimal digits.
FmtInt(n) == IF n < 10 THEN <<DigitText[n + 1]>>
             ELSE FmtInt(n \div 10) \o <<DigitText[(n % 10) + 1]>>

RECURSIVE Concat(_)
Concat(args) == IF args = <<>> THEN <<>> ELSE Head(args) \o Concat(Tail(args))

\* fmt::format(template, args...): the template with each argument rendered.
Format(template, args) == <<template>> \o Concat(args)

-----------------------------------------------------------------------------
(* Exceptions *)

\* No exception: the statement or check returned normally.
NoExc == [type |-> "none", file |-> "", line |-> 0, func |-> "", msg |-> <<>>]

\* class TestException and its constructor.
TestException(aFileName, aLineNumber, aFunctionName, aMessage) ==
    [type |-> "TestException", file |-> aFileName, line |-> aLineNumber,
     func |-> aFunctionName, msg |-> aMessage]

\* The standard exception classes used by the statements under test.
StdKinds == {"std::exception", "std::runtime_error", "std::logic_error"}

\* Every type a statement may throw and every type TEST_THROWS may be asked to expect.
Kinds == StdKinds \cup {"int", "TestException"}

\* An object of a type other than TestException, thrown by the code under test.
\* A std::exception descendant carries a what() text; an int carries none.
Thrown(type) ==
    [type |-> type, file |-> "", line |-> 0, func |-> "",
     msg |-> IF type \in StdKinds THEN <<"what of", type>> ELSE <<>>]

\* Whether a handler "catch (const K &)" matches a thrown object of type t.
\* TestException inherits from nothing, so only its own handler matches it.
IsA(t, K) ==
    \/ t = K
    \/ K = "std::exception" /\ t \in StdKinds

-----------------------------------------------------------------------------
(* Operands and their evaluation *)

\* An operand expression: its source text (#VAL), whether its type is bool, the
\* value of its first evaluation and how much every further evaluation adds
\* (step = 1 models an expression with a side effect, such as i++).
Operand(text, val, step, isBool) ==
    [text |-> text, val |-> val, step |-> step, bool |-> isBool]

\* The value the (n+1)-th evaluation of operand e yields.
Eval(e, n) == IF e.bool THEN (e.val + n * e.step) % 2 ELSE e.val + n * e.step

\* fmt's rendering of a value of e's type.
FmtVal(e, v) == IF e.bool THEN <<IF v = 1 THEN "true" ELSE "false">> ELSE FmtInt(v)

\* The evaluation counts of one check invocation: operands VAL1 and VAL2, the
\* MSG argument and the wrapped statement.
Env0 == [v1 |-> 0, v2 |-> 0, msg |-> 0, stmt |-> 0]

\* One more evaluation of the argument named k.
Use(env, k) == [env EXCEPT ![k] = @ + 1]

\* The literals true and false that TEST_TRUE and TEST_FALSE pass to TEST_EQUAL.
TrueLiteral == Operand("true", 1, 0, TRUE)

FalseLiteral == Operand("false", 0, 0, TRUE)

\* The MSG argument used with TEST_EQUAL_MSG and TEST_FAIL.
ContextMsg == <<"context">>

\* A check's result: the exception that leaves it (NoExc when it returns
\* normally) and how often each argument was evaluated.
Result(exc, env) == [exc |-> exc, env |-> env]

\* __FILE__, __LINE__, __FUNCTION__ at the place the check macro is used.
CallSite == [file |-> "Test.cpp", line |-> 120, func |-> "test"]

\* The place of a check that fails inside a function called by the wrapped statement.
HelperSite == [file |-> "Helper.cpp", line |-> 7, func |-> "helper"]

-----------------------------------------------------------------------------
(* The check macros.  Each takes its arguments and the call site and yields *)
(* the Result of one invocation.                                            *)

\* TEST_EQUAL with a message that evaluates VAL1 again instead of using v1.
TEST_EQUAL_ReEval(VAL1, VAL2, site) ==
    LET v1 == Eval(VAL1, Env0.v1)
        e1 == Use(Env0, "v1")
        v2 == Eval(VAL2, e1.v2)
        e2 == Use(e1, "v2")
    IN  IF v1 # v2
        THEN Result(TestException(site.file, site.line, site.func,
                 Format("Equality test failed: {} != {} \n{} = {}\n{} = {}",
                     <<<<VAL1.text>>, <<VAL2.text>>,
                       <<VAL1.text>>, FmtVal(VAL1, Eval(VAL1, e2.v1)),
                       <<VAL2.text>>, FmtVal(VAL2, v2)>>)),
                 Use(e2, "v1"))
        ELSE Result(NoExc, e2)

TEST_EQUAL(VAL1, VAL2, site) ==
    LET v1 == Eval(VAL1, Env0.v1)         \* auto v1 = VAL1;
        e1 == Use(Env0, "v1")
        v2 == Eval(VAL2, e1.v2)           \* auto v2 = VAL2;
        e2 == Use(e1, "v2")
    IN  IF v1 # v2
        THEN Result(TestException(site.file, site.line, site.func,
                 Format("Equality test failed: {} != {} \n{} = {}\n{} = {}",
                     <<<<VAL1.text>>, <<VAL2.text>>,
                       <<VAL1.text>>, FmtVal(VAL1, v1),
                       <<VAL2.text>>, FmtVal(VAL2, v2)>>)),
                 e2)
        ELSE Result(NoExc, e2)

\* MSG is an argument of fmt::format, so it is evaluated on the failing path only.
TEST_EQUAL_MSG(VAL1, VAL2, MSG, site) ==
    LET v1 == Eval(VAL1, Env0.v1)
        e1 == Use(Env0, "v1")
        v2 == Eval(VAL2, e1.v2)
        e2 == Use(e1, "v2")
    IN  IF v1 # v2
        THEN Result(TestException(site.file, site.line, site.func,
                 Format("Equality test failed: {} != {} ({})\n{} = {}\n{} = {}",
                     <<<<VAL1.text>>, <<VAL2.text>>, MSG,
                       <<VAL1.text>>, FmtVal(VAL1, v1),
                       <<VAL2.text>>, FmtVal(VAL2, v2)>>)),
                 Use(e2, "msg"))
        ELSE Result(NoExc, e2)

TEST_NOTEQUAL(VAL1, VAL2, site) ==
    LET v1 == Eval(VAL1, Env0.v1)
        e1 == Use(Env0, "v1")
        v2 == Eval(VAL2, e1.v2)
        e2 == Use(e1, "v2")
    IN  IF v1 = v2
        THEN Result(TestException(site.file, site.line, site.func,
                 Format("Inequality test failed: {} == {} (== {})",
                     <<<<VAL1.text>>, <<VAL2.text>>, FmtVal(VAL1, v1)>>)),
                 e2)
        ELSE Result(NoExc, e2)

TEST_TRUE(X, site) == TEST_EQUAL(X, TrueLiteral, site)

TEST_FALSE(X, site) == TEST_EQUAL(X, FalseLiteral, site)

\* TEST_GREATER_THAN_OR_EQUAL that fails at the boundary (tests v1 <= v2).
TEST_GREATER_THAN_OR_EQUAL_Strict(Stmt, Val, site) ==
    LET v1 == Eval(Stmt, Env0.v1)
        e1 == Use(Env0, "v1")
        v2 == Eval(Val, e1.v2)
        e2 == Use(e1, "v2")
    IN  IF v1 <= v2
        THEN Result(TestException(site.file, site.line, site.func,
                 Format("Comparison failed: {} < {}\n{} = {}\n{} = {}",
                     <<<<Stmt.text>>, <<Val.text>>,
                       <<Stmt.text>>, FmtVal(Stmt, v1),
                       <<Val.text>>, FmtVal(Val, v2)>>)),
                 e2)
        ELSE Result(NoExc, e2)

TEST_GREATER_THAN_OR_EQUAL(Stmt, Val, site) ==
    LET v1 == Eval(Stmt, Env0.v1)
        e1 == Use(Env0, "v1")
        v2 == Eval(Val, e1.v2)
        e2 == Use(e1, "v2")
    IN  IF v1 < v2
        THEN Result(TestException(site.file, site.line, site.func,
                 Format("Comparison failed: {} < {}\n{} = {}\n{} = {}",
                     <<<<Stmt.text>>, <<Val.text>>,
                       <<Stmt.text>>, FmtVal(Stmt, v1),
                       <<Val.text>>, FmtVal(Val, v2)>>)),
                 e2)
        ELSE Result(NoExc, e2)

TEST_LESS_THAN_OR_EQUAL(Stmt, Val, site) ==
    LET v1 == Eval(Stmt, Env0.v1)
        e1 == Use(Env0, "v1")
        v2 == Eval(Val, e1.v2)
        e2 == Use(e1, "v2")
    IN  IF v1 > v2
        THEN Result(TestException(site.file, site.line, site.func,
                 Format("Comparison failed: {} > {}\n{} = {}\n{} = {}",
                     <<<<Stmt.text>>, <<Val.text>>,
                       <<Stmt.text>>, FmtVal(Stmt, v1),
                       <<Val.text>>, FmtVal(Val, v2)>>)),
                 e2)
        ELSE Result(NoExc, e2)

TEST_FAIL(MSG, site) ==
    Result(TestException(site.file, site.line, site.func, MSG), Use(Env0, "msg"))

\* What the statement wrapped by TEST_THROWS / TEST_THROWS_ANY does: "return"
\* (it completes), "TestException" (a check inside a function it calls fails),
\* or the type of the object it throws.
StmtBehaviours == {"return"} \cup Kinds

\* The exception one execution of the wrapped statement raises, NoExc if none.
RunStmt(Stmt) ==
    IF Stmt = "return" THEN NoExc
    ELSE IF Stmt = "TestException"
         THEN TEST_FAIL(<<"nested check failed">>, HelperSite).exc
         ELSE Thrown(Stmt)

\* The exception raised inside the try block of TEST_THROWS: the statement's,
\* or the macro's own "Failed to throw" TestException when Stmt completes.
ThrowsTryBlock(Stmt, ExcClass, site) ==
    LET raised == RunStmt(Stmt)
    IN  IF raised # NoExc THEN raised
        ELSE TestException(site.file, site.line, site.func,
                 Format("Failed to throw an exception of type {}", <<<<ExcClass>>>>))

\* The handlers are tried in the order they are written.
TEST_THROWS(Stmt, ExcClass, site) ==
    LET inTry == ThrowsTryBlock(Stmt, ExcClass, site)
        env   == Use(Env0, "stmt")
    IN  IF IsA(inTry.type, ExcClass)                     \* catch (const ExcClass &)
        THEN Result(NoExc, env)
        ELSE IF IsA(inTry.type, "std::exception")        \* catch (const std::exception & exc)
        THEN Result(TestException(site.file, site.line, site.func,
                 Format("An unexpected std::exception descendant was thrown, was expecting type {}. Exception message is: {}",
                     <<<<ExcClass>>, inTry.msg>>)),
                 env)
        ELSE Result(TestException(site.file, site.line, site.func,    \* catch (...)
                 Format("An unexpected unknown exception object was thrown, was expecting type {}",
                     <<<<ExcClass>>>>)),
                 env)

\* The exception raised inside the try block of TEST_THROWS_ANY.
ThrowsAnyTryBlock(Stmt, site) ==
    LET raised == RunStmt(Stmt)
    IN  IF raised # NoExc THEN raised
        ELSE TestException(site.file, site.line, site.func,
                 <<"Failed to throw an exception of any type">>)

\* TEST_THROWS_ANY without its catch (const TestException &) handler.
TEST_THROWS_ANY_NoRethrow(Stmt, site) ==
    Result(NoExc, Use(Env0, "stmt"))

\* TEST_THROWS_ANY whose TestException handler throws a new record instead of exc.
TEST_THROWS_ANY_Rewrap(Stmt, site) ==
    LET inTry == ThrowsAnyTryBlock(Stmt, site)
        env   == Use(Env0, "stmt")
    IN  IF inTry.type = "TestException"
        THEN Result(TestException(site.file, site.line, site.func,
                 <<"An unexpected TestException was thrown">>), env)
        ELSE Result(NoExc, env)

TEST_THROWS_ANY(Stmt, site) ==
    LET inTry == ThrowsAnyTryBlock(Stmt, site)
        env   == Use(Env0, "stmt")
    IN  IF inTry.type = "TestException"                  \* catch (const TestException & exc)
        THEN Result(TestException(inTry.file, inTry.line, inTry.func, inTry.msg), env)  \* throw exc;
        ELSE Result(NoExc, env)                          \* catch (...)

-----------------------------------------------------------------------------
(* SpecChecks: one invocation of one check macro *)

CompareKinds == {"TEST_EQUAL", "TEST_EQUAL_MSG", "TEST_NOTEQUAL",
                 "TEST_GREATER_THAN_OR_EQUAL", "TEST_LESS_THAN_OR_EQUAL"}

BoolKinds == {"TEST_TRUE", "TEST_FALSE"}

ThrowKinds == {"TEST_THROWS", "TEST_THROWS_ANY"}

Vals == 0 .. MaxVal

BoolVals == {0, 1}

\* The invocations SpecChecks draws from: the macro, the first values of its
\* operands (a, b), whether the operands have side effects (step), the wrapped
\* statement's behaviour (stmt) and the expected class (K).
Invocations ==
    [kind : CompareKinds, a : Vals, b : Vals, step : {0, 1}, stmt : {"return"}, K : {"int"}]
    \cup [kind : BoolKinds, a : BoolVals, b : {0}, step : {0, 1}, stmt : {"return"}, K : {"int"}]
    \cup [kind : {"TEST_THROWS"}, a : {0}, b : {0}, step : {0}, stmt : StmtBehaviours, K : Kinds]
    \cup [kind : {"TEST_THROWS_ANY"}, a : {0}, b : {0}, step : {0}, stmt : StmtBehaviours, K : {"int"}]
    \cup [kind : {"TEST_FAIL"}, a : {0}, b : {0}, step : {0}, stmt : {"return"}, K : {"int"}]

\* The operand expressions of invocation i.
Op1(i) == Operand("x", i.a, i.step, i.kind \in BoolKinds)

Op2(i) == Operand("y", i.b, i.step, FALSE)

\* Before any check has run.
NoResult == Result(NoExc, Env0)

NotReturned == 0 - 1

InitChecks ==
    /\ inv \in Invocations
    /\ cpc = "ready"
    /\ res = NoResult
    /\ suite = <<>>
    /\ pc = "Idle"
    /\ ran = 0
    /\ pending = NoExc
    /\ output = <<>>
    /\ exitCode = NotReturned

\* Each action runs the check that inv names, once, at CallSite.

DoTestEqual ==
    /\ cpc = "ready"
    /\ inv.kind = "TEST_EQUAL"
    /\ res' = TEST_EQUAL(Op1(inv), Op2(inv), CallSite)
    /\ cpc' = "done"
    /\ UNCHANGED <<inv, runnerVars>>

DoTestEqualMsg ==
    /\ cpc = "ready"
    /\ inv.kind = "TEST_EQUAL_MSG"
    /\ res' = TEST_EQUAL_MSG(Op1(inv), Op2(inv), ContextMsg, CallSite)
    /\ cpc' = "done"
    /\ UNCHANGED <<inv, runnerVars>>

DoTestNotEqual ==
    /\ cpc = "ready"
    /\ inv.kind = "TEST_NOTEQUAL"
    /\ res' = TEST_NOTEQUAL(Op1(inv), Op2(inv), CallSite)
    /\ cpc' = "done"
    /\ UNCHANGED <<inv, runnerVars>>

DoTestTrue ==
    /\ cpc = "ready"
    /\ inv.kind = "TEST_TRUE"
    /\ res' = TEST_TRUE(Op1(inv), CallSite)
    /\ cpc' = "done"
    /\ UNCHANGED <<inv, runnerVars>>

DoTestFalse ==
    /\ cpc = "ready"
    /\ inv.kind = "TEST_FALSE"
    /\ res' = TEST_FALSE(Op1(inv), CallSite)
    /\ cpc' = "done"
    /\ UNCHANGED <<inv, runnerVars>>

DoTestGreaterThanOrEqual ==
    /\ cpc = "ready"
    /\ inv.kind = "TEST_GREATER_THAN_OR_EQUAL"
    /\ res' = TEST_GREATER_THAN_OR_EQUAL(Op1(inv), Op2(inv), CallSite)
    /\ cpc' = "done"
    /\ UNCHANGED <<inv, runnerVars>>

DoTestLessThanOrEqual ==
    /\ cpc = "ready"
    /\ inv.kind = "TEST_LESS_THAN_OR_EQUAL"
    /\ res' = TEST_LESS_THAN_OR_EQUAL(Op1(inv), Op2(inv), CallSite)
    /\ cpc' = "done"
    /\ UNCHANGED <<inv, runnerVars>>

DoTestThrows ==
    /\ cpc = "ready"
    /\ inv.kind = "TEST_THROWS"
    /\ res' = TEST_THROWS(inv.stmt, inv.K, CallSite)
    /\ cpc' = "done"
    /\ UNCHANGED <<inv, runnerVars>>

DoTestThrowsAny ==
    /\ cpc = "ready"
    /\ inv.kind = "TEST_THROWS_ANY"
    /\ res' = TEST_THROWS_ANY(inv.stmt, CallSite)
    /\ cpc' = "done"
    /\ UNCHANGED <<inv, runnerVars>>

DoTestFail ==
    /\ cpc = "ready"
    /\ inv.kind = "TEST_FAIL"
    /\ res' = TEST_FAIL(ContextMsg, CallSite)
    /\ cpc' = "done"
    /\ UNCHANGED <<inv, runnerVars>>

NextChecks ==
    \/ DoTestEqual
    \/ DoTestEqualMsg
    \/ DoTestNotEqual
    \/ DoTestTrue
    \/ DoTestFalse
    \/ DoTestGreaterThanOrEqual
    \/ DoTestLessThanOrEqual
    \/ DoTestThrows
    \/ DoTestThrowsAny
    \/ DoTestFail

SpecChecks == InitChecks /\ [][NextChecks]_vars

-----------------------------------------------------------------------------
(* Spec: main() as expanded from IMPLEMENT_TEST_MAIN(TestName, TestCode) *)

TestName == <<"Suite">>

\* What a test case of TestCode does: it completes, one of its checks fails, or
\* it throws an object of the named type.
CaseBehaviours == StmtBehaviours

\* The call site of the check that fails in the i-th test case.
CaseSite(i) == [file |-> "Test.cpp", line |-> 100 + i, func |-> "test"]

\* The exception the i-th test case raises when it behaves as c, NoExc if it completes.
RunCase(c, i) ==
    IF c = "return" THEN NoExc
    ELSE IF c = "TestException"
         THEN TEST_FAIL(<<"failure in case">> \o FmtInt(i), CaseSite(i)).exc
         ELSE [Thrown(c) EXCEPT !.msg = IF c \in StdKinds THEN @ \o FmtInt(i) ELSE @]

Suites == UNION {[1 .. n -> CaseBehaviours] : n \in 0 .. MaxCases}

Init ==
    /\ suite \in Suites
    /\ pc = "Started"
    /\ ran = 0
    /\ pending = NoExc
    /\ output = <<>>
    /\ exitCode = NotReturned
    /\ inv = CHOOSE i \in Invocations : i.kind = "TEST_FAIL"
    /\ cpc = "idle"
    /\ res = NoResult

\* fmt::print("Test started: {}\n", TestName);
PrintBanner ==
    /\ pc = "Started"
    /\ output' = Append(output, Format("Test started: {}\n", <<TestName>>))
    /\ pc' = "Running"
    /\ UNCHANGED <<suite, ran, pending, exitCode, checkVars>>

\* The try block that swallows what a test case throws and goes on to the next one.
RunTestCase_Continue ==
    /\ pc = "Running"
    /\ ran < Len(suite)
    /\ ran' = ran + 1
    /\ UNCHANGED <<suite, pc, pending, output, exitCode, checkVars>>

\* The next test case of TestCode runs inside the try block; what it throws
\* leaves the block.
RunTestCase ==
    /\ pc = "Running"
    /\ ran < Len(suite)
    /\ ran' = ran + 1
    /\ LET e == RunCase(suite[ran + 1], ran + 1)
       IN  IF e = NoExc
           THEN UNCHANGED <<pc, pending>>
           ELSE pending' = e /\ pc' = "Unwinding"
    /\ UNCHANGED <<suite, output, exitCode, checkVars>>

\* The TestException handler printing the catch-all notice instead of the record.
CatchTestException_Generic ==
    /\ pc = "Unwinding"
    /\ pending.type = "TestException"
    /\ output' = Append(output, Format("Test has failed, an unhandled exception was thrown.\n", <<>>))
    /\ exitCode' = 1
    /\ pc' = "Failed"
    /\ pending' = NoExc
    /\ UNCHANGED <<suite, ran, checkVars>>

\* catch (const TestException & exc)
CatchTestException ==
    /\ pc = "Unwinding"
    /\ pending.type = "TestException"
    /\ output' = Append(output,
           Format("Test has failed at file {}, line {}, function {}:\n{}\n",
               <<<<pending.file>>, FmtInt(pending.line), <<pending.func>>, pending.msg>>))
    /\ exitCode' = 1
    /\ pc' = "Failed"
    /\ pending' = NoExc
    /\ UNCHANGED <<suite, ran, checkVars>>

\* The std::exception handler returning 0.
CatchStdException_ReturnsZero ==
    /\ pc = "Unwinding"
    /\ pending.type # "TestException"
    /\ IsA(pending.type, "std::exception")
    /\ output' = Append(output,
           Format("Test has failed, an exception was thrown: {}\n", <<pending.msg>>))
    /\ exitCode' = 0
    /\ pc' = "Failed"
    /\ pending' = NoExc
    /\ UNCHANGED <<suite, ran, checkVars>>

\* catch (const std::exception & exc), tried after the TestException handler
CatchStdException ==
    /\ pc = "Unwinding"
    /\ pending.type # "TestException"
    /\ IsA(pending.type, "std::exception")
    /\ output' = Append(output,
           Format("Test has failed, an exception was thrown: {}\n", <<pending.msg>>))
    /\ exitCode' = 1
    /\ pc' = "Failed"
    /\ pending' = NoExc
    /\ UNCHANGED <<suite, ran, checkVars>>

\* catch (...), tried last
CatchAll ==
    /\ pc = "Unwinding"
    /\ pending.type # "TestException"
    /\ ~IsA(pending.type, "std::exception")
    /\ output' = Append(output, Format("Test has failed, an unhandled exception was thrown.\n", <<>>))
    /\ exitCode' = 1
    /\ pc' = "Failed"
    /\ pending' = NoExc
    /\ UNCHANGED <<suite, ran, checkVars>>

\* TestCode completed: fmt::print("Test finished\n"); return 0;
Finish ==
    /\ pc = "Running"
    /\ ran = Len(suite)
    /\ output' = Append(output, Format("Test finished\n", <<>>))
    /\ exitCode' = 0
    /\ pc' = "Passed"
    /\ UNCHANGED <<suite, ran, pending, checkVars>>

Next ==
    \/ PrintBanner
    \/ RunTestCase
    \/ CatchTestException
    \/ CatchStdException
    \/ CatchAll
    \/ Finish

Spec == Init /\ [][Next]_vars

-----------------------------------------------------------------------------
(* Properties of main(), checked under Spec *)

Terminal == {"Passed", "Failed"}

\* The position of the first test case of s that raises something, 0 if none does.
FirstFailing(s) ==
    IF \E i \in 1 .. Len(s) : RunCase(s[i], i) # NoExc
    THEN CHOOSE i \in 1 .. Len(s) :
             /\ RunCase(s[i], i) # NoExc
             /\ \A j \in 1 .. (i - 1) : RunCase(s[j], j) = NoExc
    ELSE 0

\* The line main() is to print for an exception e that escaped TestCode.
ReportLine(e) ==
    IF e.type = "TestException"
    THEN Format("Test has failed at file {}, line {}, function {}:\n{}\n",
             <<<<e.file>>, FmtInt(e.line), <<e.func>>, e.msg>>)
    ELSE IF e.type \in StdKinds
    THEN Format("Test has failed, an exception was thrown: {}\n", <<e.msg>>)
    ELSE Format("Test has failed, an unhandled exception was thrown.\n", <<>>)

BannerLine == Format("Test started: {}\n", <<TestName>>)

FinishedLine == Format("Test finished\n", <<>>)

\* The positions of output that hold a failure report.
FailureLines == {k \in 1 .. Len(output) : output[k] \notin {BannerLine, FinishedLine}}

\* C1: main returns 0 exactly when every test case of the suite completes
\* without raising anything and 1 when some test case raises a TestException, a
\* std::exception descendant or any other object; it returns nothing else, and
\* every exception leaving TestCode is caught by one of the handlers.
C1_ExitStatus ==
    /\ exitCode \in {NotReturned, 0, 1}
    /\ (pc \in Terminal) <=> (exitCode # NotReturned)
    /\ pc = "Unwinding" =>
           /\ pending # NoExc
           /\ ENABLED (CatchTestException \/ CatchStdException \/ CatchAll)
    /\ pc \in Terminal =>
           /\ pending = NoExc
           /\ (exitCode = 0) <=> (FirstFailing(suite) = 0)
           /\ (exitCode = 1) <=> (FirstFailing(suite) # 0)

\* main has returned 1 for a three-case suite whose second case threw a
\* std::exception descendant.
C1_Witness ==
    /\ pc = "Failed"
    /\ exitCode = 1
    /\ Len(suite) = 3
    /\ suite[1] = "return"
    /\ suite[2] = "std::logic_error"

\* C2: the runner is fail-fast: no test case after the first one that raises is
\* ever executed, and the failure reported is the one that first failing case
\* raised, reported exactly once.
C2_FailFast ==
    LET f == FirstFailing(suite)
    IN  /\ ran <= Len(suite)
        /\ f # 0 => ran <= f
        /\ f = 0 => FailureLines = {}
        /\ pc = "Unwinding" => f # 0 /\ ran = f /\ pending = RunCase(suite[f], f)
        /\ pc = "Failed" =>
               /\ f # 0 /\ ran = f
               /\ Cardinality(FailureLines) = 1
               /\ output[Len(output)] = ReportLine(RunCase(suite[f], f))
        /\ pc \notin Terminal => FailureLines = {}

\* The second of three cases failed a check: main reported it and returned
\* while the third case, which would also have failed, was never run.
C2_Witness ==
    /\ pc = "Failed"
    /\ Len(suite) = 3
    /\ suite[1] = "return"
    /\ suite[2] = "TestException"
    /\ suite[3] = "TestException"
    /\ ran = 2

\* C10: the output follows one protocol: the banner naming the suite is printed
\* before any test case runs; exactly one outcome line follows it; the "Test
\* finished" line is printed exactly when the exit status is 0; and a
\* TestException that escapes TestCode is reported by the TestException handler
\* with its own file name, line number, function name and message.
C10_OutputProtocol ==
    /\ pc = "Started" => output = <<>> /\ ran = 0
    /\ pc # "Started" => Len(output) >= 1 /\ output[1] = BannerLine
    /\ pc \in {"Running", "Unwinding"} => Len(output) = 1
    /\ pc \in Terminal => Len(output) = 2 /\ output[2] # BannerLine
    /\ (\E k \in 1 .. Len(output) : output[k] = FinishedLine) <=> (exitCode = 0)
    /\ pc = "Failed" /\ RunCase(suite[ran], ran).type = "TestException" =>
           LET e == RunCase(suite[ran], ran)
           IN  output[2] = Format("Test has failed at file {}, line {}, function {}:\n{}\n",
                               <<<<e.file>>, FmtInt(e.line), <<e.func>>, e.msg>>)

\* main has reported the TestException of the first case of a suite.
C10_Witness ==
    /\ pc = "Failed"
    /\ Len(suite) >= 2
    /\ suite[1] = "TestException"
    /\ Len(output) = 2
    /\ output[2][2] = "Test.cpp"

-----------------------------------------------------------------------------
(* Properties of the check macros, checked under SpecChecks *)

\* The exception the wrapped statement of inv raised, NoExc if it completed.
StmtRaised == RunStmt(inv.stmt)

\* The exception raised inside the try block of the error-expecting check inv names.
RaisedInTry ==
    IF inv.kind = "TEST_THROWS"
    THEN ThrowsTryBlock(inv.stmt, inv.K, CallSite)
    ELSE ThrowsAnyTryBlock(inv.stmt, CallSite)

\* C3: when the statement wrapped by TEST_THROWS_ANY raises a TestException,
\* TEST_THROWS_ANY does not return normally: that TestException leaves it with
\* its file name, line number, function name and message unchanged.
C3_AnyPropagatesNested ==
    (cpc = "done" /\ inv.kind = "TEST_THROWS_ANY" /\ StmtRaised.type = "TestException") =>
        /\ res.exc # NoExc
        /\ res.exc.type = "TestException"
        /\ res.exc.file = StmtRaised.file
        /\ res.exc.line = StmtRaised.line
        /\ res.exc.func = StmtRaised.func
        /\ res.exc.msg = StmtRaised.msg

\* TEST_THROWS_ANY has run on a statement whose nested check failed in Helper.cpp.
C3_Witness ==
    /\ cpc = "done"
    /\ inv.kind = "TEST_THROWS_ANY"
    /\ inv.stmt = "TestException"
    /\ res.exc.file = "Helper.cpp"

\* C4: TEST_THROWS and TEST_THROWS_ANY re-raise a TestException unchanged:
\* whenever a TestException is raised inside the wrapped statement or by the
\* check's own "failed to throw" path, the TestException that leaves the check
\* has the same file name, line number, function name and message as that one;
\* it is never replaced by a record with different content.
C4_RethrowUnchanged ==
    (/\ cpc = "done"
     /\ inv.kind \in ThrowKinds
     /\ RaisedInTry.type = "TestException"
     /\ res.exc.type = "TestException") =>
        /\ res.exc.file = RaisedInTry.file
        /\ res.exc.line = RaisedInTry.line
        /\ res.exc.func = RaisedInTry.func
        /\ res.exc.msg = RaisedInTry.msg

\* C4 restricted to TEST_THROWS_ANY, the one check for which it holds.
C4_HoldsForThrowsAny ==
    (cpc = "done" /\ inv.kind = "TEST_THROWS_ANY" /\ RaisedInTry.type = "TestException") =>
        res.exc = RaisedInTry

\* C5: when the statement wrapped by TEST_THROWS(Stmt, ExcClass) returns
\* normally, the TestException reaching the caller carries the "Failed to throw
\* an exception of type <ExcClass>" message, not that of another failure branch.
C5_FailedToThrowMessage ==
    (/\ cpc = "done"
     /\ inv.kind = "TEST_THROWS"
     /\ inv.stmt = "return"
     /\ res.exc.type = "TestException") =>
        res.exc.msg = Format("Failed to throw an exception of type {}", <<<<inv.K>>>>)

\* What the code does in the case of C5: the catch (...) handler replaces the message.
C5_ActualMessage ==
    (cpc = "done" /\ inv.kind = "TEST_THROWS" /\ inv.stmt = "return" /\ inv.K # "TestException") =>
        /\ res.exc.type = "TestException"
        /\ res.exc.msg = Format("An unexpected unknown exception object was thrown, was expecting type {}",
                             <<<<inv.K>>>>)

\* C6: TEST_THROWS(Stmt, K) returns normally exactly when the statement raised
\* an error that is K or is-a K; in every other case, the statement raising
\* nothing included, a TestException leaves it.
C6_ThrowsIff ==
    (cpc = "done" /\ inv.kind = "TEST_THROWS") =>
        /\ (res.exc = NoExc) <=> (StmtRaised # NoExc /\ IsA(StmtRaised.type, inv.K))
        /\ res.exc # NoExc => res.exc.type = "TestException"

\* C6 for every expected class other than TestException itself.
C6_HoldsForOtherKinds ==
    (cpc = "done" /\ inv.kind = "TEST_THROWS" /\ inv.K # "TestException") =>
        /\ (res.exc = NoExc) <=> (StmtRaised # NoExc /\ IsA(StmtRaised.type, inv.K))
        /\ res.exc # NoExc => res.exc.type = "TestException"

\* C7: TEST_THROWS_ANY returns normally exactly when the statement raised
\* something that is not a TestException; when the statement raises nothing, a
\* TestException with the message "Failed to throw an exception of any type",
\* located at the check, leaves the check.
C7_ThrowsAnyIff ==
    (cpc = "done" /\ inv.kind = "TEST_THROWS_ANY") =>
        /\ (res.exc = NoExc) <=> (StmtRaised # NoExc /\ StmtRaised.type # "TestException")
        /\ inv.stmt = "return" =>
               res.exc = TestException(CallSite.file, CallSite.line, CallSite.func,
                             <<"Failed to throw an exception of any type">>)

\* TEST_THROWS_ANY has run on a statement that completed, and failed.
C7_Witness ==
    /\ cpc = "done"
    /\ inv.kind = "TEST_THROWS_ANY"
    /\ inv.stmt = "return"
    /\ res.exc.type = "TestException"

\* Whether a check with the given result returned normally.
Succeeds(r) == r.exc = NoExc

\* C8: every comparison check returns normally exactly when its success
\* condition holds and raises a TestException otherwise: TEST_EQUAL and
\* TEST_EQUAL_MSG iff a = b, TEST_NOTEQUAL iff a # b (so exactly one of
\* TEST_EQUAL and TEST_NOTEQUAL fails), TEST_TRUE iff x is true, TEST_FALSE iff
\* x is false, TEST_GREATER_THAN_OR_EQUAL iff a >= b and
\* TEST_LESS_THAN_OR_EQUAL iff a <= b.
C8_Comparisons ==
    /\ cpc = "done" =>
           /\ inv.kind \in {"TEST_EQUAL", "TEST_EQUAL_MSG"} => (Succeeds(res) <=> inv.a = inv.b)
           /\ inv.kind = "TEST_NOTEQUAL" => (Succeeds(res) <=> inv.a # inv.b)
           /\ inv.kind = "TEST_TRUE" => (Succeeds(res) <=> inv.a = 1)
           /\ inv.kind = "TEST_FALSE" => (Succeeds(res) <=> inv.a = 0)
           /\ inv.kind = "TEST_GREATER_THAN_OR_EQUAL" => (Succeeds(res) <=> inv.a >= inv.b)
           /\ inv.kind = "TEST_LESS_THAN_OR_EQUAL" => (Succeeds(res) <=> inv.a <= inv.b)
           /\ inv.kind \in CompareKinds \cup BoolKinds =>
                  (~Succeeds(res) => res.exc.type = "TestException")
    /\ inv.kind \in CompareKinds =>
           Succeeds(TEST_EQUAL(Op1(inv), Op2(inv), CallSite))
               # Succeeds(TEST_NOTEQUAL(Op1(inv), Op2(inv), CallSite))

\* TEST_GREATER_THAN_OR_EQUAL has run at the boundary a = b and returned normally.
C8_Witness ==
    /\ cpc = "done"
    /\ inv.kind = "TEST_GREATER_THAN_OR_EQUAL"
    /\ inv.a = inv.b
    /\ Succeeds(res)

\* The text a failing comparison check is to carry: the operands' source text
\* and the values their first evaluation yielded.
FirstValueMessage ==
    LET x  == Op1(inv)
        y  == IF inv.kind = "TEST_TRUE" THEN TrueLiteral
              ELSE IF inv.kind = "TEST_FALSE" THEN FalseLiteral
              ELSE Op2(inv)
        v1 == FmtVal(x, Eval(x, 0))
        v2 == FmtVal(y, Eval(y, 0))
    IN  CASE inv.kind \in {"TEST_EQUAL", "TEST_TRUE", "TEST_FALSE"} ->
                 <<"Equality test failed: {} != {} \n{} = {}\n{} = {}",
                   x.text, y.text, x.text>> \o v1 \o <<y.text>> \o v2
          [] inv.kind = "TEST_EQUAL_MSG" ->
                 <<"Equality test failed: {} != {} ({})\n{} = {}\n{} = {}",
                   x.text, y.text>> \o ContextMsg \o <<x.text>> \o v1 \o <<y.text>> \o v2
          [] inv.kind = "TEST_NOTEQUAL" ->
                 <<"Inequality test failed: {} == {} (== {})", x.text, y.text>> \o v1
          [] inv.kind = "TEST_GREATER_THAN_OR_EQUAL" ->
                 <<"Comparison failed: {} < {}\n{} = {}\n{} = {}",
                   x.text, y.text, x.text>> \o v1 \o <<y.text>> \o v2
          [] inv.kind = "TEST_LESS_THAN_OR_EQUAL" ->
                 <<"Comparison failed: {} > {}\n{} = {}\n{} = {}",
                   x.text, y.text, x.text>> \o v1 \o <<y.text>> \o v2

\* C9: every check evaluates each of its operand expressions exactly once per
\* invocation, whether it passes or fails; the values in the failure message
\* are those of that one evaluation; TEST_TRUE and TEST_FALSE, and the
\* statement of TEST_THROWS and TEST_THROWS_ANY, are no exception.
C9_SingleEvaluation ==
    cpc = "done" =>
        /\ inv.kind \in CompareKinds \cup BoolKinds =>
               /\ res.env.v1 = 1
               /\ res.env.v2 = 1
               /\ res.env.stmt = 0
               /\ ~Succeeds(res) => res.exc.msg = FirstValueMessage
        /\ inv.kind \in ThrowKinds =>
               /\ res.env.stmt = 1
               /\ res.env.v1 = 0
               /\ res.env.v2 = 0

\* TEST_EQUAL has failed on operands whose value changes with every evaluation.
C9_Witness ==
    /\ cpc = "done"
    /\ inv.kind = "TEST_EQUAL"
    /\ inv.step = 1
    /\ ~Succeeds(res)

\* TEST_EQUAL_MSG evaluates its MSG argument once when it fails and not at all
\* when it passes.
EqualMsgEvaluatesMsgOnFailureOnly ==
    (cpc = "done" /\ inv.kind = "TEST_EQUAL_MSG") =>
        res.env.msg = IF Succeeds(res) THEN 0 ELSE 1

====
